---- MODULE Spec2Model ----
(***************************************************************************)
(* ascii_maker web front end.                                              *)
(*                                                                         *)
(* Part I  - the GIF frame compositor of src/web/js/gif-parser.js          *)
(*           (parseGifFromBuffer, buildFullFrames), one step per statement *)
(*           group of the loop body: draw the patch, capture the frame,    *)
(*           apply the disposal.                                           *)
(* Part II - the application state of src/web/js/app.js: loads, settings   *)
(*           and dimension changes, the asynchronous processAllFrames with *)
(*           its yield to the event loop, and the playback handlers with   *)
(*           their timeouts.                                               *)
(* Part III - the frame processor: floydSteinberg (dither.js), the charset *)
(*           ramps and the braille encoder (charsets.js), and the tone     *)
(*           stages and processFrame of the processor.                     *)
(***************************************************************************)
EXTENDS Integers, Sequences, FiniteSets, TLC

VARIABLES
  \* ---- compositor (gif-parser.js) ----
  rawFrames,          \* the decoded patch frames handed to the compositor
  pc,                 \* position in parseGifFromBuffer / buildFullFrames
  canvas,             \* the compositing canvas (width, height, bitmap)
  previousImageData,  \* snapshot for "restore to previous", or Null
  fullFrames,         \* the output list under construction
  idx,                \* number of raw frames the for-of loop has finished
  \* ---- application (app.js) ----
  state,              \* the module-level state object
  elements,           \* the DOM inputs the handlers read and write
  tasks,              \* the suspended async handlers and pending timeouts, oldest first
  nEvents,            \* number of user events delivered so far
  \* ---- frame processor (dither.js, charsets.js, processor.js) ----
  call                \* the function call under way: arguments, position, result

compVars == <<rawFrames, pc, canvas, previousImageData, fullFrames, idx>>
appVars == <<state, elements, tasks, nEvents>>
procVars == <<call>>
vars == <<rawFrames, pc, canvas, previousImageData, fullFrames, idx,
          state, elements, tasks, nEvents, call>>

(***************************************************************************)
(* Bounds of the model.                                                    *)
(***************************************************************************)
\* Longest raw frame sequence handed to the compositor.
MaxFrames == 3
\* Number of user events (loads, setting and dimension changes) in a run.
MaxEvents == 3
\* Largest number of cells of a grid handed to floydSteinberg.
MaxCells == 6
\* Largest luminance grid handed to mapArrayToChars.
MaxRows == 2
MaxCols == 2
\* Largest binary grid handed to brailleFromArray, and its number of set cells.
MaxBinaryRows == 5
MaxBinaryCols == 3
MaxDots == 2
\* Largest number of cells of a luminance grid that are not mid-gray.
MaxOffGray == 2
\* Largest width and height, in characters, asked of processFrame.
MaxWidth == 2
MaxHeight == 2

(***************************************************************************)
(* Part I. Pixels, image data and the canvas operations.                   *)
(***************************************************************************)
Null == [null |-> TRUE]

\* RGBA8 pixels, <<r, g, b, a>>.
Transparent == <<0, 0, 0, 0>>
Red == <<255, 0, 0, 255>>
Blue == <<0, 0, 255, 255>>

Coords(w, h) == (0 .. w - 1) \X (0 .. h - 1)

\* document.createElement("canvas") with width and height set: a bitmap of
\* transparent black.
CreateCanvas(w, h) ==
  [width |-> w, height |-> h, data |-> [p \in Coords(w, h) |-> Transparent]]

InRect(p, left, top, w, h) ==
  /\ left <= p[1] /\ p[1] < left + w
  /\ top <= p[2] /\ p[2] < top + h

\* Rounded integer division, for the blend below.
RoundDiv(a, b) == (2 * a + b) \div (2 * b)

\* The default "source-over" compositing of drawImage for one pixel.  Patches
\* decoded from a GIF carry alpha 0 or 255 only; for these the result is the
\* destination or the source pixel exactly.
SourceOver(src, dst) ==
  IF src[4] = 0 THEN dst
  ELSE IF src[4] = 255 THEN src
  ELSE LET a == src[4] * 255 + dst[4] * (255 - src[4])
           ch(i) == RoundDiv(src[i] * src[4] * 255 + dst[i] * dst[4] * (255 - src[4]), a)
       IN  <<ch(1), ch(2), ch(3), RoundDiv(a, 255)>>

\* The pixel of a row-major patch at patch coordinates (x, y).
PatchAt(frame, x, y) == frame.patch[y * frame.dims.width + x + 1]

\* ctx.drawImage(patchCanvas, dims.left, dims.top): the patch canvas holds the
\* patch pixels (createImageData, data.set(patch), putImageData).
DrawImageMutOverwrite(cv, frame) ==
  [cv EXCEPT !.data = [p \in DOMAIN cv.data |->
     IF InRect(p, frame.dims.left, frame.dims.top, frame.dims.width, frame.dims.height)
     THEN PatchAt(frame, p[1] - frame.dims.left, p[2] - frame.dims.top)
     ELSE cv.data[p]]]

DrawImage(cv, frame) ==
  [cv EXCEPT !.data = [p \in DOMAIN cv.data |->
     IF InRect(p, frame.dims.left, frame.dims.top, frame.dims.width, frame.dims.height)
     THEN SourceOver(PatchAt(frame, p[1] - frame.dims.left, p[2] - frame.dims.top),
                     cv.data[p])
     ELSE cv.data[p]]]

\* ctx.getImageData(0, 0, width, height): a fresh copy of the bitmap.
GetImageData(cv, w, h) ==
  [width |-> w, height |-> h,
   data |-> [p \in Coords(w, h) |->
              IF p \in DOMAIN cv.data THEN cv.data[p] ELSE Transparent]]

\* ctx.putImageData(imageData, 0, 0): overwrites (no blending) the pixels the
\* image data covers.
PutImageData(cv, img) ==
  [cv EXCEPT !.data = [p \in DOMAIN cv.data |->
     IF p \in DOMAIN img.data THEN img.data[p] ELSE cv.data[p]]]

\* ctx.clearRect(left, top, w, h): transparent black inside the rectangle.
ClearRectMutNone(cv, left, top, w, h) == cv

ClearRectMutWhole(cv, left, top, w, h) ==
  [cv EXCEPT !.data = [p \in DOMAIN cv.data |-> Transparent]]

ClearRect(cv, left, top, w, h) ==
  [cv EXCEPT !.data = [p \in DOMAIN cv.data |->
     IF InRect(p, left, top, w, h) THEN Transparent ELSE cv.data[p]]]

\* delay || 100, for the delay destructured from the frame: a frame without a
\* delay property gives undefined, which like 0 is falsy.
DelayOrDefaultMutKeepZero(frame) ==
  IF "delay" \in DOMAIN frame THEN frame.delay ELSE 100

DelayOrDefault(frame) ==
  IF "delay" \in DOMAIN frame /\ frame.delay # 0 THEN frame.delay ELSE 100

(***************************************************************************)
(* The raw frames the compositor is run on.                                *)
(***************************************************************************)
Solid(n, px) == [i \in 1 .. n |-> px]

\* The raw frames, as decompressFrames returns them: { dims, patch, delay,
\* disposalType }.  A red patch over the whole 4x4 screen with delay 40, a
\* 2x2 blue square at (1,1) with delay 0, and a 2x3 patch at (2,1) with
\* transparent holes and no delay property, each with every disposal type.
\* (The delay is read at line 67 only and never reaches the canvas.)
RedFrame(t) ==
  [dims |-> [left |-> 0, top |-> 0, width |-> 4, height |-> 4],
   patch |-> Solid(16, Red), delay |-> 40, disposalType |-> t]
BlueFrame(t) ==
  [dims |-> [left |-> 1, top |-> 1, width |-> 2, height |-> 2],
   patch |-> Solid(4, Blue), delay |-> 0, disposalType |-> t]
HolesFrame(t) ==
  [dims |-> [left |-> 2, top |-> 1, width |-> 2, height |-> 3],
   patch |-> <<Blue, Transparent, Transparent, Red, Blue, Transparent>>,
   disposalType |-> t]

DisposalTypes == 0 .. 3

RawFrameSet ==
  {RedFrame(t) : t \in DisposalTypes}
    \cup {BlueFrame(t) : t \in DisposalTypes}
    \cup {HolesFrame(t) : t \in DisposalTypes}

SeqsUpTo(S, n) == UNION {[1 .. k -> S] : k \in 0 .. n}

Max(a, b) == IF a >= b THEN a ELSE b
Min(a, b) == IF a <= b THEN a ELSE b

RECURSIVE LogicalScreen(_, _, _)
\* Lines 212-217: the running maxWidth / maxHeight over frames k .. Len.
LogicalScreen(frames, k, acc) ==
  IF k > Len(frames) THEN acc
  ELSE LogicalScreen(frames, k + 1,
         [maxWidth |-> Max(acc.maxWidth, frames[k].dims.left + frames[k].dims.width),
          maxHeight |-> Max(acc.maxHeight, frames[k].dims.top + frames[k].dims.height)])

(***************************************************************************)
(* The compositor as a state machine.                                      *)
(*   pc: "start"   nothing called yet                                      *)
(*       "parsed"  parseGifFromBuffer passed its empty check               *)
(*       "loop"    buildFullFrames at the head of its for-of loop          *)
(*       "capture" the patch of frame idx+1 is drawn                       *)
(*       "dispose" the frame idx+1 is captured and pushed                  *)
(*       "done"    buildFullFrames returned fullFrames                     *)
(*       "threw"   parseGifFromBuffer threw                                *)
(***************************************************************************)
NoCanvas == [width |-> 0, height |-> 0, data |-> <<>>]

CompIdle ==
  /\ pc = "start"
  /\ canvas = NoCanvas
  /\ previousImageData = Null
  /\ fullFrames = <<>>
  /\ idx = 0

CompInit ==
  /\ rawFrames \in SeqsUpTo(RawFrameSet, MaxFrames)
  /\ CompIdle

\* The frame the for-of loop is at.
frame == rawFrames[idx + 1]

\* buildFullFrames, lines 28-38: the canvas, previousImageData = null,
\* fullFrames = [].
EnterBuildFullFrames(w, h) ==
  /\ canvas' = CreateCanvas(w, h)
  /\ previousImageData' = Null
  /\ fullFrames' = <<>>
  /\ idx' = 0
  /\ pc' = "loop"

\* A direct call of the exported buildFullFrames(rawFrames, width, height)
\* by a caller that passes the extent of the frames, the logical screen
\* parseGifFromBuffer itself reconstructs (0 x 0 for no frames).
BuildFullFrames ==
  /\ pc = "start"
  /\ LET m == LogicalScreen(rawFrames, 1, [maxWidth |-> 0, maxHeight |-> 0])
     IN  EnterBuildFullFrames(m.maxWidth, m.maxHeight)
  /\ UNCHANGED rawFrames

\* parseGifFromBuffer, lines 201-205: the empty check.
ParseGifFromBufferMutNoCheck ==
  /\ pc = "start"
  /\ pc' = "parsed"
  /\ UNCHANGED <<rawFrames, canvas, previousImageData, fullFrames, idx>>

ParseGifFromBuffer ==
  /\ pc = "start"
  /\ pc' = IF Len(rawFrames) = 0 THEN "threw" ELSE "parsed"
  /\ UNCHANGED <<rawFrames, canvas, previousImageData, fullFrames, idx>>

\* parseGifFromBuffer, lines 207-219: the logical screen and the call of
\* buildFullFrames (rawFrames[0].dims of an empty list throws).
ParseGifFromBufferCall ==
  /\ pc = "parsed"
  /\ IF Len(rawFrames) = 0
     THEN /\ pc' = "threw"
          /\ UNCHANGED <<canvas, previousImageData, fullFrames, idx>>
     ELSE LET m == LogicalScreen(rawFrames, 1,
                     [maxWidth |-> rawFrames[1].dims.width,
                      maxHeight |-> rawFrames[1].dims.height])
          IN  EnterBuildFullFrames(m.maxWidth, m.maxHeight)
  /\ UNCHANGED rawFrames

\* Line 85: the loop is over, return fullFrames.
ReturnFullFrames ==
  /\ pc = "loop"
  /\ idx = Len(rawFrames)
  /\ pc' = "done"
  /\ UNCHANGED <<rawFrames, canvas, previousImageData, fullFrames, idx>>

\* Lines 40-61: the next frame, its patch canvas and drawImage.
DrawPatch ==
  /\ pc = "loop"
  /\ idx < Len(rawFrames)
  /\ canvas' = DrawImage(canvas, frame)
  /\ pc' = "capture"
  /\ UNCHANGED <<rawFrames, previousImageData, fullFrames, idx>>

\* Lines 76-78: restore the saved state, if there is one.
RestorePreviousMutBlank(cv, prev) ==
  IF prev # Null THEN PutImageData(cv, prev) ELSE CreateCanvas(cv.width, cv.height)

RestorePrevious(cv, prev) ==
  IF prev # Null THEN PutImageData(cv, prev) ELSE cv

\* Lines 70-82: what the disposal of frame f makes of the canvas and of the
\* snapshot.
DisposedCanvas(cv, prev, f) ==
  IF f.disposalType = 2
  THEN ClearRect(cv, f.dims.left, f.dims.top, f.dims.width, f.dims.height)
  ELSE IF f.disposalType = 3 THEN RestorePrevious(cv, prev)
  ELSE cv

DisposedSnapshotMutAlways(cv, prev, f) == GetImageData(cv, cv.width, cv.height)

DisposedSnapshot(cv, prev, f) ==
  IF f.disposalType = 2 \/ f.disposalType = 3 THEN prev
  ELSE GetImageData(cv, cv.width, cv.height)

\* Lines 63-68: getImageData and the push.
CaptureFrameMutAfterDisposal ==
  /\ pc = "capture"
  /\ fullFrames' = Append(fullFrames,
        [imageData |-> GetImageData(DisposedCanvas(canvas, previousImageData, frame),
                                    canvas.width, canvas.height),
         delay |-> DelayOrDefault(frame)])
  /\ pc' = "dispose"
  /\ UNCHANGED <<rawFrames, canvas, previousImageData, idx>>

CaptureFrame ==
  /\ pc = "capture"
  /\ fullFrames' = Append(fullFrames,
        [imageData |-> GetImageData(canvas, canvas.width, canvas.height),
         delay |-> DelayOrDefault(frame)])
  /\ pc' = "dispose"
  /\ UNCHANGED <<rawFrames, canvas, previousImageData, idx>>

\* Lines 70-83: the disposal of the frame just captured, and the loop's step.
Dispose ==
  /\ pc = "dispose"
  /\ canvas' = DisposedCanvas(canvas, previousImageData, frame)
  /\ previousImageData' = DisposedSnapshot(canvas, previousImageData, frame)
  /\ idx' = idx + 1
  /\ pc' = "loop"
  /\ UNCHANGED <<rawFrames, fullFrames>>

(***************************************************************************)
(* Part II. The application (app.js).                                      *)
(***************************************************************************)
\* Line 265: processAllFrames yields to the event loop after frame i when
\* state.frames.length > 10 and i % 5 === 0.
YieldThreshold == 10
YieldEvery == 5
\* Line 409: the accepted range of the width and height inputs.
MaxWidthInput == 300
MaxHeightInput == 100
\* Lines 25-26: the default settings.
DefaultWidth == 80
DefaultHeight == 24

\* The text of a number input, by what parseInt(text, 10) makes of it.
\* A JavaScript array, so that a property can hold either null or an array.
Array(items) == [items |-> items]
Length(arr) == Len(arr.items)

Num(n) == [nan |-> FALSE, n |-> n]
NaN == [nan |-> TRUE, n |-> 0]

\* The files and URL responses: an 11-frame GIF of 64x64, a 2-frame GIF of
\* 32x64, and a static image of 256x1.  (The ratios are powers of two, so
\* the floating-point quotients of the auto-fit are exact.)
AnimFile ==
  [name |-> "anim", type |-> "image/gif", width |-> 64, height |-> 64,
   delays |-> [i \in 1 .. 11 |-> 10 * i]]
PairFile ==
  [name |-> "pair", type |-> "image/gif", width |-> 32, height |-> 64,
   delays |-> <<100, 20>>]
StripFile ==
  [name |-> "strip", type |-> "image/png", width |-> 256, height |-> 1,
   delays |-> <<100>>]
Files == {AnimFile, PairFile, StripFile}

\* What loadGifFromFile / loadStaticImage / loadGifFromUrl resolve to:
\* { frames: [{ imageData, delay }], width, height }.
LoadResult(f) ==
  [frames |-> [i \in 1 .. Len(f.delays) |->
                 [imageData |-> <<f.name, i>>, delay |-> f.delays[i]]],
   width |-> f.width, height |-> f.height]

CharsetChoices == {"simple", "braille"}
DimensionTexts == {NaN, Num(0), Num(40), Num(400)}

\* Lines 10-28.
InitialState ==
  [frames |-> Null, processedFrames |-> Null,
   sourceWidth |-> 0, sourceHeight |-> 0,
   currentFrame |-> Num(0), isPlaying |-> FALSE, playbackTimer |-> Null,
   settings |-> [charset |-> "simple", colorMode |-> "truecolor",
                 dither |-> FALSE, brightness |-> 0, contrast |-> 100,
                 invert |-> FALSE,
                 width |-> DefaultWidth, height |-> DefaultHeight]]

\* Lines 38-62: the inputs of the page that handlers read back, with the
\* values of the default settings.
InitialElements ==
  [widthInput |-> Num(DefaultWidth), heightInput |-> Num(DefaultHeight),
   charsetSelect |-> "simple", colorModeSelect |-> "truecolor",
   ditherCheckbox |-> FALSE, invertCheckbox |-> FALSE,
   brightnessSlider |-> Num(0), contrastSlider |-> Num(100),
   frameSlider |-> [value |-> 0, max |-> 0, disabled |-> TRUE],
   urlLoadBtnDisabled |-> FALSE]

AppInit ==
  /\ state = InitialState
  /\ elements = InitialElements
  /\ tasks = <<>>
  /\ nEvents = 0

\* Math.round(a / b) for a >= 0, b > 0: the nearest integer, halves up.
MathRoundDiv(a, b) == (2 * a + b) \div (2 * b)

\* Lines 217-227 (and 168-175): fit the character grid to the image's aspect
\* ratio.  charAspect = 2 * w / h; width / height is Infinity or NaN when the
\* height setting is 0, and the comparison is then false.
AutoFit(settings, w, h) ==
  IF settings.height > 0 /\ 2 * w * settings.height > settings.width * h
  THEN [settings EXCEPT !.height = MathRoundDiv(settings.width * h, 2 * w)]
  ELSE [settings EXCEPT !.width = MathRoundDiv(settings.height * 2 * w, h)]

\* processFrame (gif-parser.js 446-470): resizeImageData ends in
\* getImageData(0, 0, width, height), which throws for a zero width or height.
ProcessFrameThrows(settings) == settings.width = 0 \/ settings.height = 0

\* Lines 259-263: { ...processFrame(frame.imageData, state.settings), delay }.
\* The result of processFrame stands as its two arguments.
Processed(fr, settings) ==
  [of |-> fr.imageData, settings |-> settings, delay |-> fr.delay]

RECURSIVE ProcessFrom(_, _)
\* Lines 257-273: the loop of processAllFrames from index i (0-based) up to
\* its next yield, its end or the exception of processFrame.  It reads
\* state.frames, state.settings and state.processedFrames anew at each frame.
ProcessFrom(st, i) ==
  IF i >= Length(st.frames) THEN [st |-> st, at |-> "done", i |-> i]
  ELSE IF ProcessFrameThrows(st.settings) THEN [st |-> st, at |-> "threw", i |-> i]
  ELSE LET pushed == [st EXCEPT !.processedFrames.items =
                        Append(@, Processed(st.frames.items[i + 1], st.settings))]
       IN  IF Length(st.frames) > YieldThreshold /\ i % YieldEvery = 0
           THEN [st |-> pushed, at |-> "yield", i |-> i]
           ELSE ProcessFrom(pushed, i + 1)

\* Lines 251-257: processAllFrames up to its first yield.
ProcessAllFrames(st) ==
  IF st.frames = Null THEN [st |-> st, at |-> "done", i |-> 0]
  ELSE ProcessFrom([st EXCEPT !.processedFrames = Array(<<>>)], 0)

\* state.processedFrames[state.currentFrame] is undefined: the index is NaN
\* or past the end of the array.
FrameUndefined(st) ==
  st.currentFrame.nan \/ st.currentFrame.n >= Length(st.processedFrames)

\* Lines 279-294: renderCurrentFrame, as far as it writes what handlers read.
\* Reading frame.lines of an undefined frame throws a TypeError before
\* anything is written; the slider keeps a value within its range.
RenderCurrentFrame(st, el) ==
  IF st.processedFrames = Null \/ Length(st.processedFrames) = 0 THEN el
  ELSE IF FrameUndefined(st) THEN el
  ELSE [el EXCEPT !.frameSlider.value = Min(st.currentFrame.n, el.frameSlider.max)]

\* Lines 471-480: updateUI, as far as it writes what handlers read.
UpdateUI(st, el) ==
  [el EXCEPT !.frameSlider.disabled =
     ~(st.processedFrames # Null /\ Length(st.processedFrames) > 1)]

RemoveAt(seq, k) == SubSeq(seq, 1, k - 1) \o SubSeq(seq, k + 1, Len(seq))

\* What follows `await processAllFrames()` in the handler of task t (at
\* position k, or Len(tasks)+1 for a handler just called), given where the
\* call r stands: suspended at a yield, returned, or thrown.
Continue(k, t, r, el) ==
  LET rest == IF k <= Len(tasks) THEN RemoveAt(tasks, k) ELSE tasks
      unlocked == IF t.op = "handleUrlLoad"
                  THEN [el EXCEPT !.urlLoadBtnDisabled = FALSE] ELSE el
  IN  /\ state' = r.st
      /\ IF r.at = "yield"
         THEN /\ tasks' = IF k <= Len(tasks)
                          THEN [tasks EXCEPT ![k] = [t EXCEPT !.at = "yield", !.i = r.i]]
                          ELSE Append(tasks, [t EXCEPT !.at = "yield", !.i = r.i])
              /\ elements' = el
         ELSE /\ tasks' = rest
              /\ elements' =
                   IF r.at # "done" THEN unlocked
                   ELSE IF t.op \in {"loadFile", "handleUrlLoad"}
                        THEN LET shown == UpdateUI(r.st, el)
                                 drawn == RenderCurrentFrame(r.st, shown)
                             IN  IF t.op = "handleUrlLoad"
                                 THEN [drawn EXCEPT !.urlLoadBtnDisabled = FALSE]
                                 ELSE drawn
                        ELSE RenderCurrentFrame(r.st, el)

\* loadFile, lines 201-210: started by a file selection or a drop; suspended
\* at the await of the load.
LoadFile(f) ==
  /\ nEvents < MaxEvents
  /\ nEvents' = nEvents + 1
  /\ tasks' = Append(tasks, [op |-> "loadFile", at |-> "load", i |-> 0, file |-> f])
  /\ UNCHANGED <<state, elements>>

\* handleUrlLoad, lines 150-161: an empty URL returns at once.
HandleUrlLoad(empty) ==
  /\ nEvents < MaxEvents
  /\ nEvents' = nEvents + 1
  /\ IF empty
     THEN UNCHANGED <<state, elements, tasks>>
     ELSE /\ elements' = [elements EXCEPT !.urlLoadBtnDisabled = TRUE]
          /\ tasks' = Append(tasks, [op |-> "handleUrlLoad", at |-> "load", i |-> 0,
                                     file |-> Null])
          /\ UNCHANGED state

\* loadFile lines 212-241 and handleUrlLoad lines 163-189: the load resolved
\* with result r (the file of loadFile; whatever the URL serves).
LoadResolved(k, f) ==
  /\ tasks[k].at = "load"
  /\ tasks[k].op = "loadFile" => f = tasks[k].file
  /\ LET result == LoadResult(f)
         fitted == AutoFit(state.settings, result.width, result.height)
         st == [state EXCEPT !.frames = Array(result.frames),
                             !.sourceWidth = result.width,
                             !.sourceHeight = result.height,
                             !.currentFrame = Num(0),
                             !.settings = fitted]
         el == [elements EXCEPT !.widthInput = Num(fitted.width),
                                !.heightInput = Num(fitted.height),
                                !.frameSlider.max = Max(0, Len(result.frames) - 1),
                                !.frameSlider.value = 0]
     IN  Continue(k, tasks[k], ProcessAllFrames(st), el)
  /\ UNCHANGED nEvents

\* The load rejected (an unreadable file, a failed fetch, a GIF without
\* frames): the catch of lines 242-245 and 190-195.
LoadRejected(k) ==
  /\ tasks[k].at = "load"
  /\ tasks' = RemoveAt(tasks, k)
  /\ elements' = IF tasks[k].op = "handleUrlLoad"
                 THEN [elements EXCEPT !.urlLoadBtnDisabled = FALSE] ELSE elements
  /\ UNCHANGED <<state, nEvents>>

\* handleSettingChange, lines 388-400: the user set the charset select to c
\* and the dither checkbox to d.
HandleSettingChange(c, d) ==
  /\ nEvents < MaxEvents
  /\ nEvents' = nEvents + 1
  /\ LET el == [elements EXCEPT !.charsetSelect = c, !.ditherCheckbox = d]
         st == [state EXCEPT !.settings =
                  [@ EXCEPT !.charset = el.charsetSelect,
                            !.colorMode = el.colorModeSelect,
                            !.dither = el.ditherCheckbox,
                            !.invert = el.invertCheckbox,
                            !.brightness = el.brightnessSlider.n,
                            !.contrast = el.contrastSlider.n]]
         t == [op |-> "handleSettingChange", at |-> "run", i |-> 0, file |-> Null]
     IN  IF st.frames # Null
         THEN Continue(Len(tasks) + 1, t, ProcessAllFrames(st), el)
         ELSE state' = st /\ elements' = el /\ UNCHANGED tasks

\* handleDimensionChange, lines 405-418, with the inputs as el holds them.
HandleDimensionChange(el) ==
  /\ nEvents < MaxEvents
  /\ nEvents' = nEvents + 1
  /\ LET w == el.widthInput
         h == el.heightInput
         t == [op |-> "handleDimensionChange", at |-> "run", i |-> 0, file |-> Null]
     IN  IF /\ ~w.nan /\ ~h.nan
            /\ w.n > 0 /\ w.n <= MaxWidthInput /\ h.n > 0 /\ h.n <= MaxHeightInput
         THEN LET st == [state EXCEPT !.settings.width = w.n,
                                      !.settings.height = h.n]
              IN  IF st.frames # Null
                  THEN Continue(Len(tasks) + 1, t, ProcessAllFrames(st), el)
                  ELSE state' = st /\ elements' = el /\ UNCHANGED tasks
         ELSE state' = state /\ elements' = el /\ UNCHANGED tasks

\* The user typed v into the width input (line 129) or the height input
\* (line 130).
HandleWidthChange(v) == HandleDimensionChange([elements EXCEPT !.widthInput = v])
HandleHeightChange(v) == HandleDimensionChange([elements EXCEPT !.heightInput = v])

\* Line 269: the setTimeout(r, 0) of a suspended processAllFrames fired; the
\* loop goes on with i + 1.
ResumeProcessing(k) ==
  /\ tasks[k].at = "yield"
  /\ Continue(k, tasks[k], ProcessFrom(state, tasks[k].i + 1), elements)
  /\ UNCHANGED nEvents

(* ---- playback (app.js, lines 299-383 and 423-446) ---- *)
\* A pending playback timeout is a task [op |-> "tick", i |-> its id].
TimerIds(ts) == {ts[k].i : k \in {j \in 1 .. Len(ts) : ts[j].op = "tick"}}
\* The id setTimeout returns: a positive integer that no pending timeout has
\* and that is not the stored one (ids matter by equality only, so the
\* smallest such integer stands for the next id).
FreshTimer(st, ts) ==
  LET used == TimerIds(ts) \cup
              (IF st.playbackTimer # Null THEN {st.playbackTimer.id} ELSE {})
  IN  CHOOSE n \in 1 .. Cardinality(used) + 1 :
        n \notin used /\ \A o \in 1 .. n - 1 : o \in used
ClearTimeout(ts, id) == SelectSeq(ts, LAMBDA t : ~(t.op = "tick" /\ t.i = id))

\* Lines 332-339: stopPlayback.
StopPlaybackMutKeepTimer(st, ts) ==
  [st |-> [st EXCEPT !.isPlaying = FALSE, !.playbackTimer = Null], ts |-> ts]
StopPlayback(st, ts) ==
  [st |-> [st EXCEPT !.isPlaying = FALSE, !.playbackTimer = Null],
   ts |-> IF st.playbackTimer # Null THEN ClearTimeout(ts, st.playbackTimer.id)
          ELSE ts]

\* (currentFrame + d) % processedFrames.length: NaN for an empty array or a
\* NaN index.
StepFrame(st, d) ==
  LET len == Length(st.processedFrames)
  IN  IF st.currentFrame.nan \/ len = 0 THEN NaN
      ELSE Num((st.currentFrame.n + d) % len)

\* Lines 314-322: tick. An undefined frame makes renderCurrentFrame or the
\* read of frame.delay throw, and no timeout is set.
TickBody(st, el, ts) ==
  IF ~st.isPlaying THEN [st |-> st, el |-> el, ts |-> ts]
  ELSE LET moved == [st EXCEPT !.currentFrame = StepFrame(st, 1)]
           drawn == RenderCurrentFrame(moved, el)
           throws == \/ FrameUndefined(st)
                     \/ Length(moved.processedFrames) > 0 /\ FrameUndefined(moved)
           id == FreshTimer(moved, ts)
       IN  IF throws THEN [st |-> moved, el |-> drawn, ts |-> ts]
           ELSE [st |-> [moved EXCEPT !.playbackTimer = [id |-> id]],
                 el |-> drawn,
                 ts |-> Append(ts, [op |-> "tick", at |-> "timer", i |-> id,
                                    file |-> Null])]

\* Lines 308-327: startPlayback.
StartPlayback(st, el, ts) ==
  IF st.processedFrames = Null \/ Length(st.processedFrames) <= 1
  THEN [st |-> st, el |-> el, ts |-> ts]
  ELSE TickBody([st EXCEPT !.isPlaying = TRUE], el, ts)

\* Lines 299-305: togglePlayback (the play button or the space key).
TogglePlayback ==
  /\ nEvents < MaxEvents
  /\ nEvents' = nEvents + 1
  /\ LET r == IF state.isPlaying
              THEN LET s == StopPlayback(state, tasks)
                   IN  [st |-> s.st, el |-> elements, ts |-> s.ts]
              ELSE StartPlayback(state, elements, tasks)
     IN  state' = r.st /\ elements' = r.el /\ tasks' = r.ts

\* Lines 356-375: prevFrame (d = -1) and nextFrame (d = 1), by the buttons or
\* the arrow keys.
StepHandler(d) ==
  /\ nEvents < MaxEvents
  /\ nEvents' = nEvents + 1
  /\ IF state.processedFrames = Null THEN UNCHANGED <<state, elements, tasks>>
     ELSE LET s == StopPlayback(state, tasks)
              len == Length(state.processedFrames)
              moved == [s.st EXCEPT !.currentFrame =
                          StepFrame(IF d < 0
                                    THEN [s.st EXCEPT !.currentFrame =
                                            IF @.nan THEN @ ELSE Num(@.n + len)]
                                    ELSE s.st, d)]
          IN  /\ state' = moved
              /\ tasks' = s.ts
              /\ elements' = RenderCurrentFrame(moved, elements)
HandlePrevFrame == StepHandler(-1)
HandleNextFrame == StepHandler(1)

\* Lines 378-383: handleSliderChange, the user having moved the enabled
\* slider to v.
HandleSliderChange(v) ==
  /\ nEvents < MaxEvents
  /\ ~elements.frameSlider.disabled
  /\ v <= elements.frameSlider.max
  /\ nEvents' = nEvents + 1
  /\ LET el == [elements EXCEPT !.frameSlider.value = v]
     IN  IF state.processedFrames = Null
         THEN elements' = el /\ UNCHANGED <<state, tasks>>
         ELSE LET s == StopPlayback(state, tasks)
                  moved == [s.st EXCEPT !.currentFrame = Num(el.frameSlider.value)]
              IN  /\ state' = moved
                  /\ tasks' = s.ts
                  /\ elements' = RenderCurrentFrame(moved, el)

\* Lines 423-426: handleDownload up to its await; what follows touches the
\* download button and the progress text only.
HandleDownload ==
  /\ nEvents < MaxEvents
  /\ nEvents' = nEvents + 1
  /\ IF state.processedFrames = Null \/ Length(state.processedFrames) = 0
     THEN UNCHANGED <<state, elements, tasks>>
     ELSE LET s == StopPlayback(state, tasks)
          IN  state' = s.st /\ tasks' = s.ts /\ UNCHANGED elements

\* Line 321: the timeout of task k fired and runs tick.
Tick(k) ==
  /\ tasks[k].op = "tick"
  /\ LET r == TickBody(state, elements, RemoveAt(tasks, k))
     IN  state' = r.st /\ elements' = r.el /\ tasks' = r.ts
  /\ UNCHANGED nEvents


(***************************************************************************)
(* Part III. The frame processor.                                          *)
(*                                                                         *)
(* Luminances are exact fractions <<numerator, denominator>>.  The inputs  *)
(* are dyadic (multiples of 1/4) and the grids small, so that every value  *)
(* the code stores fits the 24-bit significand of a Float32Array cell and  *)
(* the floating-point operations of the code are exact.                    *)
(***************************************************************************)
NoCall == [fn |-> "none"]

Abs(n) == IF n < 0 THEN -n ELSE n

RECURSIVE GCD(_, _)
GCD(a, b) == IF b = 0 THEN a ELSE GCD(b, a % b)

\* The fraction n / d (d > 0) in lowest terms.
Frac(n, d) == LET g == GCD(Abs(n), d) IN <<n \div g, d \div g>>
Zero == <<0, 1>>
Half == <<1, 2>>
One == <<1, 1>>
LCM(a, b) == (a \div GCD(a, b)) * b
FAdd(a, b) ==
  LET l == LCM(a[2], b[2])
  IN  Frac(a[1] * (l \div a[2]) + b[1] * (l \div b[2]), l)
FSub(a, b) == FAdd(a, <<-b[1], b[2]>>)
FMul(a, b) ==
  LET g1 == GCD(Abs(a[1]), b[2])
      g2 == GCD(Abs(b[1]), a[2])
  IN  Frac((a[1] \div g1) * (b[1] \div g2), (a[2] \div g2) * (b[2] \div g1))
\* a / b for b > 0.
FDiv(a, b) == FMul(a, <<b[2], b[1]>>)
FLess(a, b) ==
  LET l == LCM(a[2], b[2])
  IN  a[1] * (l \div a[2]) < b[1] * (l \div b[2])
MathMin(a, b) == IF FLess(b, a) THEN b ELSE a
MathMax(a, b) == IF FLess(a, b) THEN b ELSE a
MathFloor(a) == a[1] \div a[2]
\* Math.round: the nearest integer, halves towards +Infinity.
MathRound(a) == MathFloor(FAdd(a, Half))
Clamp01(a) == MathMax(Zero, MathMin(One, a))

\* A grid is a sequence of rows, a row a sequence of cells.
Height(grid) == Len(grid)
\* gray[0]?.length || 0
Width(grid) == IF Len(grid) = 0 THEN 0 ELSE Len(grid[1])
UniformGrid(h, w, v) == [y \in 1 .. h |-> [x \in 1 .. w |-> v]]

(* ---- dither.js (src/unnamed/part_001, lines 12-52) ---- *)
\* Line 19.
Step(levels) == IF levels > 1 THEN <<1, levels - 1>> ELSE One

\* Lines 24-25: the level nearest to old, clamped to [0, 1].
QuantizeMutFloor(old, step) ==
  Clamp01(FMul(<<MathFloor(FDiv(old, step)), 1>>, step))
Quantize(old, step) ==
  Clamp01(FMul(<<MathRound(FDiv(old, step)), 1>>, step))

\* img[y][x] += err * (k / 16), for a cell inside the grid (0-based y, x).
Spread(img, y, x, err, k) ==
  IF y < Len(img) /\ x >= 0 /\ x < Width(img)
  THEN [img EXCEPT ![y + 1][x + 1] = FAdd(@, FMul(err, <<k, 16>>))]
  ELSE img

\* Lines 23-40: quantize cell (y, x) and push its error to the right and to
\* the three cells below.
DitherCellMutBackward(img, y, x, step) ==
  LET old == img[y + 1][x + 1]
      newVal == Quantize(old, step)
      err == FSub(old, newVal)
      i0 == [img EXCEPT ![y + 1][x + 1] = newVal]
      i1 == Spread(i0, y, x - 1, err, 7)
      i2 == Spread(i1, y + 1, x - 1, err, 3)
      i3 == Spread(i2, y + 1, x, err, 5)
  IN  Spread(i3, y + 1, x + 1, err, 1)
DitherCell(img, y, x, step) ==
  LET old == img[y + 1][x + 1]
      newVal == Quantize(old, step)
      err == FSub(old, newVal)
      i0 == [img EXCEPT ![y + 1][x + 1] = newVal]
      i1 == Spread(i0, y, x + 1, err, 7)
      i2 == Spread(i1, y + 1, x - 1, err, 3)
      i3 == Spread(i2, y + 1, x, err, 5)
  IN  Spread(i3, y + 1, x + 1, err, 1)

RECURSIVE DitherFrom(_, _, _)
\* Lines 21-42 from cell number k (row-major, 0-based) on.
DitherFrom(img, k, step) ==
  LET w == Width(img)
  IN  IF w = 0 \/ k >= Len(img) * w THEN img
      ELSE DitherFrom(DitherCell(img, k \div w, k % w, step), k + 1, step)

\* Lines 45-49: the final clamp of every cell.
ClampGrid(img) ==
  [y \in 1 .. Len(img) |-> [x \in 1 .. Len(img[y]) |-> Clamp01(img[y][x])]]

\* Lines 12-52 as one function.
FloydSteinberg(gray, levels) ==
  ClampGrid(DitherFrom(gray, 0, Step(levels)))

\* The grids and level counts floydSteinberg is called with.
GrayChoices == {Zero, <<1, 4>>, Half, <<3, 4>>, One}
LevelChoices == {-1, 0, 1, 2, 3, 9}
Shapes(n) == {s \in (1 .. n) \X (1 .. n) : s[1] * s[2] <= n}
DitherGrids ==
  {<<>>}
  \cup {UniformGrid(s[1], s[2], v) : s \in Shapes(MaxCells), v \in GrayChoices}
  \cup [1 .. 1 -> [1 .. 2 -> GrayChoices]]

InitDither ==
  \E g \in DitherGrids : \E l \in LevelChoices :
    call = [fn |-> "floydSteinberg", pc |-> "start", gray |-> g, levels |-> l]

\* Lines 13-19: the copy of the input and the step.
FloydSteinbergEnter ==
  /\ call.fn = "floydSteinberg" /\ call.pc = "start"
  /\ call' = [fn |-> "floydSteinberg", pc |-> "loop", gray |-> call.gray,
              levels |-> call.levels, img |-> call.gray,
              step |-> Step(call.levels), k |-> 0]

\* Lines 21-42: one iteration of the inner loop.
FloydSteinbergCell ==
  /\ call.fn = "floydSteinberg" /\ call.pc = "loop"
  /\ call.k < Height(call.img) * Width(call.img)
  /\ call' = [call EXCEPT
       !.img = DitherCell(@, call.k \div Width(call.img),
                          call.k % Width(call.img), call.step),
       !.k = @ + 1]

\* Lines 44-51: the final clamp and the return.
FloydSteinbergReturn ==
  /\ call.fn = "floydSteinberg" /\ call.pc = "loop"
  /\ call.k >= Height(call.img) * Width(call.img)
  /\ call' = [call EXCEPT !.pc = "returned", !.img = ClampGrid(@)]

(* ---- charsets.js (src/unnamed/part_001, lines 60-187) ---- *)
\* A string is the sequence of its UTF-16 code units.
\* Lines 60-66: the ramps, dark to light.
SimpleRamp ==
  <<32, 46, 58, 45, 61, 43, 42, 35, 37, 64>>
DetailedRamp ==
  <<32, 46, 96, 39, 94, 34, 44, 58, 59, 73, 108, 33, 105, 62, 60, 126, 43,
    95, 45, 63, 93, 91, 125, 123, 49, 41, 40, 124, 92, 47, 116, 102, 106,
    114, 120, 110, 117, 118, 99, 122, 88, 89, 85, 74, 67, 76, 81, 48, 79,
    90, 109, 119, 113, 112, 100, 98, 107, 104, 97, 111, 42, 35, 77, 87, 38,
    56, 37, 66, 64, 36>>
BlocksRamp ==
  <<32, 9601, 9602, 9603, 9604, 9605, 9606, 9607, 9608>>
BraillePlaceholder ==
  <<10240, 10241>>
CHARSETS ==
  [simple |-> SimpleRamp, detailed |-> DetailedRamp, blocks |-> BlocksRamp,
   braille |-> BraillePlaceholder]

\* What the property read CHARSETS[name] gives: the ramp of a registered
\* name; for a name CHARSETS inherits from Object.prototype, a function
\* (with its own length, and no indexed properties); else undefined.
InheritedLength == [constructor |-> 1, toString |-> 0]
Lookup(name) ==
  IF name \in DOMAIN CHARSETS THEN [type |-> "string", chars |-> CHARSETS[name]]
  ELSE IF name \in DOMAIN InheritedLength
       THEN [type |-> "function", length |-> InheritedLength[name]]
       ELSE [type |-> "undefined"]
\* chars.length; reading it from undefined throws a TypeError.
LengthThrows(chars) == chars.type = "undefined"
LengthOf(chars) == IF chars.type = "string" THEN Len(chars.chars) ELSE chars.length
\* The text `line += chars[idx]` appends: one character of a ramp, or the
\* word "undefined" for a missing property.
UndefinedText == <<117, 110, 100, 101, 102, 105, 110, 101, 100>>
CharAt(chars, at) ==
  IF chars.type = "string" /\ at >= 0 /\ at < Len(chars.chars)
  THEN <<chars.chars[at + 1]>>
  ELSE UndefinedText

\* Lines 73-74 and 98-99: the ramp index of a luminance.
RampIndexMutRound(luminance, maxIdx) ==
  Max(0, Min(MathRound(FMul(luminance, <<maxIdx, 1>>)), maxIdx))
RampIndex(luminance, maxIdx) ==
  Max(0, Min(MathFloor(FMul(luminance, <<maxIdx, 1>>)), maxIdx))

\* Lines 71-75.
CharIndexForLuminance(charset, luminance) ==
  RampIndex(luminance, LengthOf(Lookup(charset)) - 1)

RECURSIVE MapRow(_, _, _)
\* Lines 96-101: the line of one row, from cell i (1-based) on.
MapRow(chars, row, i) ==
  IF i > Len(row) THEN <<>>
  ELSE CharAt(chars, RampIndex(row[i], LengthOf(chars) - 1)) \o MapRow(chars, row, i + 1)

\* Lines 90-105 for a charset whose lookup does not throw.
MapArrayToChars(charset, luminanceRows) ==
  [y \in 1 .. Len(luminanceRows) |-> MapRow(Lookup(charset), luminanceRows[y], 1)]

\* The names, luminances and luminance grids the charset functions are
\* called with.
CharsetNames == DOMAIN CHARSETS \cup {"constructor", "toString", "nope"}
LuminanceChoices == {Frac(k, 8) : k \in -1 .. 9}
CellChoices == {Zero, Half, One}
LuminanceGrids ==
  {<<>>} \cup UNION {
    {g \in [1 .. h -> [1 .. w -> CellChoices]] :
       Cardinality({c \in (1 .. h) \X (1 .. w) : g[c[1]][c[2]] # Half}) <= MaxOffGray} :
    h \in 1 .. MaxRows, w \in 1 .. MaxCols}

InitCharset ==
  \E c \in CharsetNames :
    \/ \E v \in LuminanceChoices :
         call = [fn |-> "charIndexForLuminance", pc |-> "start",
                 charset |-> c, luminance |-> v]
    \/ \E g \in LuminanceGrids :
         call = [fn |-> "mapArrayToChars", pc |-> "start",
                 charset |-> c, luminanceRows |-> g]

\* Lines 71-75.
CharIndexForLuminanceCall ==
  /\ call.fn = "charIndexForLuminance" /\ call.pc = "start"
  /\ call' = IF LengthThrows(Lookup(call.charset))
             THEN [call EXCEPT !.pc = "threw"]
             ELSE [fn |-> call.fn, pc |-> "returned", charset |-> call.charset,
                   luminance |-> call.luminance,
                   result |-> CharIndexForLuminance(call.charset, call.luminance)]

\* Lines 91-93: the lookup, maxIdx and the empty list of lines.
MapArrayToCharsEnter ==
  /\ call.fn = "mapArrayToChars" /\ call.pc = "start"
  /\ call' = IF LengthThrows(Lookup(call.charset))
             THEN [call EXCEPT !.pc = "threw"]
             ELSE [fn |-> call.fn, pc |-> "rows", charset |-> call.charset,
                   luminanceRows |-> call.luminanceRows, lines |-> <<>>]

\* Lines 95-103: one row.
MapArrayToCharsRow ==
  /\ call.fn = "mapArrayToChars" /\ call.pc = "rows"
  /\ Len(call.lines) < Len(call.luminanceRows)
  /\ call' = [call EXCEPT !.lines =
       Append(@, MapRow(Lookup(call.charset),
                        call.luminanceRows[Len(call.lines) + 1], 1))]

\* Line 104.
MapArrayToCharsReturn ==
  /\ call.fn = "mapArrayToChars" /\ call.pc = "rows"
  /\ Len(call.lines) = Len(call.luminanceRows)
  /\ call' = [call EXCEPT !.pc = "returned"]

(* ---- braille encoding (src/unnamed/part_001, lines 116-187) ---- *)
\* Line 116: 0x2800.
BRAILLE_BASE == 10240
\* Lines 118-123: the bit of each dot, by row and column.
BrailleDotBitsMutRowMajor == <<<<0, 1>>, <<2, 3>>, <<4, 5>>, <<6, 7>>>>
BRAILLE_DOT_BITS == <<<<0, 3>>, <<1, 4>>, <<2, 5>>, <<6, 7>>>>

RECURSIVE Pow2(_)
Pow2(n) == IF n = 0 THEN 1 ELSE 2 * Pow2(n - 1)
HasBit(code, b) == (code \div Pow2(b)) % 2 = 1
\* code | (1 << b)
OrBit(code, b) == IF HasBit(code, b) THEN code ELSE code + Pow2(b)

RECURSIVE BrailleCode(_, _, _)
\* Lines 131-138: the loops over the eight dots, from dot number k
\* (row-major, 0-based) on.
BrailleCode(dots, k, code) ==
  IF k = 8 THEN code
  ELSE LET row == k \div 2
           col == k % 2
       IN  BrailleCode(dots, k + 1,
             IF dots[row + 1][col + 1]
             THEN OrBit(code, BRAILLE_DOT_BITS[row + 1][col + 1])
             ELSE code)

\* String.fromCharCode: one UTF-16 code unit.
FromCharCode(n) == <<n % 65536>>

\* Lines 130-140.
BrailleChar(dots) == FromCharCode(BRAILLE_BASE + BrailleCode(dots, 0, 0))

\* Lines 153-170: the grid with zero rows and columns appended.
PaddedMutTopLeft(binary) ==
  LET h == Height(binary)
      w == Width(binary)
      padH == (4 - (h % 4)) % 4
      padW == (2 - (w % 2)) % 2
  IN  [y \in 1 .. h + padH |-> [x \in 1 .. w + padW |->
         IF y > padH /\ x > padW THEN binary[y - padH][x - padW] ELSE 0]]
Padded(binary) ==
  LET h == Height(binary)
      w == Width(binary)
      padH == (4 - (h % 4)) % 4
      padW == (2 - (w % 2)) % 2
  IN  IF padH > 0 \/ padW > 0
      THEN [y \in 1 .. h + padH |-> [x \in 1 .. w + padW |->
              IF y <= h /\ x <= w THEN binary[y][x] ELSE 0]]
      ELSE binary

\* Lines 176-181: the dots of the block whose top-left cell is (y, x), 0-based.
DotsAt(binary, y, x) ==
  [r \in 1 .. 4 |-> [c \in 1 .. 2 |-> binary[y + r][x + c] > 0]]

RECURSIVE BrailleLine(_, _, _)
\* Lines 174-183: the line of the blocks of rows y .. y + 3, from column x on.
BrailleLine(binary, y, x) ==
  IF x >= Width(binary) THEN <<>>
  ELSE BrailleChar(DotsAt(binary, y, x)) \o BrailleLine(binary, y, x + 2)

\* Lines 148-187 as one function.
BrailleFromArray(binary) ==
  LET padded == Padded(binary)
  IN  [l \in 1 .. Height(padded) \div 4 |-> BrailleLine(padded, 4 * (l - 1), 0)]

\* The dot patterns and binary grids the braille functions are called with:
\* every 4x2 pattern; every grid of up to MaxBinaryRows x MaxBinaryCols
\* cells of which at most MaxDots are set.
DotPatterns == [1 .. 4 -> [1 .. 2 -> BOOLEAN]]
CellSets(h, w) ==
  {d \in SUBSET ((1 .. h) \X (1 .. w)) : Cardinality(d) <= MaxDots}
BinaryGrids ==
  {<<>>} \cup UNION {
    {[y \in 1 .. h |-> [x \in 1 .. w |-> IF <<y, x>> \in d THEN 1 ELSE 0]] :
       d \in CellSets(h, w)} :
    h \in 1 .. MaxBinaryRows, w \in 1 .. MaxBinaryCols}

InitBraille ==
  \/ \E dots \in DotPatterns :
       call = [fn |-> "brailleChar", pc |-> "start", dots |-> dots]
  \/ \E g \in BinaryGrids :
       call = [fn |-> "brailleFromArray", pc |-> "start", input |-> g, binary |-> g]

\* Lines 130-140.
BrailleCharCall ==
  /\ call.fn = "brailleChar" /\ call.pc = "start"
  /\ call' = [fn |-> call.fn, pc |-> "returned", dots |-> call.dots,
              result |-> BrailleChar(call.dots)]

\* Lines 149-172: the padding; the argument itself is left alone and the
\* local name is bound to the padded copy.
BrailleFromArrayPad ==
  /\ call.fn = "brailleFromArray" /\ call.pc = "start"
  /\ call' = [fn |-> call.fn, pc |-> "lines", input |-> call.input,
              binary |-> call.binary, padded |-> Padded(call.binary),
              lines |-> <<>>]

\* Lines 173-185: one line of braille characters.
BrailleFromArrayLine ==
  /\ call.fn = "brailleFromArray" /\ call.pc = "lines"
  /\ 4 * Len(call.lines) < Height(call.padded)
  /\ call' = [call EXCEPT !.lines =
       Append(@, BrailleLine(call.padded, 4 * Len(call.lines), 0))]

\* Line 186.
BrailleFromArrayReturn ==
  /\ call.fn = "brailleFromArray" /\ call.pc = "lines"
  /\ 4 * Len(call.lines) >= Height(call.padded)
  /\ call' = [call EXCEPT !.pc = "returned"]

(* ---- tone stages of the processor (gif-parser.js, lines 339-363) ---- *)
\* Lines 346-359: one cell; the shift and the scaling are skipped at their
\* neutral values, and the only clamp is the last one.
AdjustCellMutClampBetween(val, brightness, contrast) ==
  LET shifted == Clamp01(FAdd(val, Frac(brightness, 100)))
  IN  Clamp01(FAdd(FMul(FSub(shifted, Half), Frac(contrast, 100)), Half))
AdjustCell(val, brightness, contrast) ==
  LET shifted == IF brightness # 0 THEN FAdd(val, Frac(brightness, 100)) ELSE val
      scaled == IF contrast # 100
                THEN FAdd(FMul(FSub(shifted, Half), Frac(contrast, 100)), Half)
                ELSE shifted
  IN  Clamp01(scaled)

\* Lines 339-363 as one function.
AdjustBrightnessContrast(gray, brightness, contrast) ==
  [y \in 1 .. Len(gray) |-> [x \in 1 .. Len(gray[y]) |->
     AdjustCell(gray[y][x], brightness, contrast)]]

\* The grids and settings adjustBrightnessContrast is called with; the
\* settings are multiples of 25, so that brightness / 100 and contrast / 100
\* are exact in binary floating point.
BrightnessChoices == {-100, -50, 0, 25, 50, 100}
ContrastChoices == {0, 50, 100, 150, 200}
ToneGrids ==
  {<<>>}
  \cup UNION {[1 .. 1 -> [1 .. w -> GrayChoices]] : w \in 1 .. MaxCols}
  \cup {UniformGrid(h, w, v) : h \in 1 .. MaxRows, w \in 1 .. MaxCols, v \in GrayChoices}

InitTone ==
  \E g \in ToneGrids : \E b \in BrightnessChoices : \E c \in ContrastChoices :
    call = [fn |-> "adjustBrightnessContrast", pc |-> "start", input |-> g,
            gray |-> g, brightness |-> b, contrast |-> c]

\* Lines 340-342: the copy the function works on.
AdjustBrightnessContrastEnter ==
  /\ call.fn = "adjustBrightnessContrast" /\ call.pc = "start"
  /\ call' = [fn |-> call.fn, pc |-> "loop", input |-> call.input,
              gray |-> call.gray, brightness |-> call.brightness,
              contrast |-> call.contrast, result |-> call.gray, k |-> 0]

\* Lines 344-361: one cell (number k, row-major).
AdjustBrightnessContrastCell ==
  /\ call.fn = "adjustBrightnessContrast" /\ call.pc = "loop"
  /\ call.k < Height(call.result) * Width(call.result)
  /\ LET y == call.k \div Width(call.result)
         x == call.k % Width(call.result)
     IN  call' = [call EXCEPT
           !.result[y + 1][x + 1] = AdjustCell(@, call.brightness, call.contrast),
           !.k = @ + 1]

\* Line 362.
AdjustBrightnessContrastReturn ==
  /\ call.fn = "adjustBrightnessContrast" /\ call.pc = "loop"
  /\ call.k >= Height(call.result) * Width(call.result)
  /\ call' = [call EXCEPT !.pc = "returned"]

(* ---- the frame processor (gif-parser.js, lines 290-330 and 372-540) ---- *)
\* An ImageData as its width, its height and its rows of RGBA8 pixels.
ImageData(width, height, pixel) ==
  [width |-> width, height |-> height,
   rows |-> [y \in 1 .. height |-> [x \in 1 .. width |-> pixel]]]

Black == <<0, 0, 0, 255>>
White == <<255, 255, 255, 255>>

\* Line 307: getImageData throws IndexSizeError for a zero width or height.
GetImageDataThrows(sw, sh) == sw = 0 \/ sh = 0

\* Lines 290-308 for an image of one opaque colour, which scaling leaves one
\* colour. getImageData(0, 0, sw, sh) reads the rectangle with the corners
\* (0, 0) and (sw, sh) into an image of |sw| x |sh| pixels: for a negative sw
\* or sh the rectangle lies outside the canvas and every pixel is transparent
\* black (Transparent).
ResizeImageData(imageData, width, height) ==
  ImageData(Abs(width), Abs(height),
            IF width > 0 /\ height > 0 THEN imageData.rows[1][1] ELSE Transparent)

\* Line 324.
Luminance(pixel) == Frac(299 * pixel[1] + 587 * pixel[2] + 114 * pixel[3], 255000)

\* Lines 315-330.
ToGrayscale(imageData) ==
  [y \in 1 .. imageData.height |->
     [x \in 1 .. imageData.width |-> Luminance(imageData.rows[y][x])]]

\* Lines 372-386: the loops run over the requested width and height.
GetColorSamples(imageData, width, height) ==
  LET resized == ResizeImageData(imageData, width, height)
  IN  [y \in 1 .. height |-> [x \in 1 .. width |-> SubSeq(resized.rows[y][x], 1, 3)]]

\* Lines 411-423: Math.round of the mean of one channel over the 2x4 block of
\* the character at column x, row y (0-based).
BlockMean(resized, x, y, ch) ==
  LET Sum[k \in 0 .. 8] ==
        IF k = 0 THEN 0
        ELSE Sum[k - 1] + resized.rows[y * 4 + ((k - 1) \div 2) + 1]
                                      [x * 2 + ((k - 1) % 2) + 1][ch]
  IN  MathRound(Frac(Sum[8], 8))

\* Lines 395-430.
GetBrailleColorSamples(imageData, width, height) ==
  LET resized == ResizeImageData(imageData, width * 2, height * 4)
  IN  [y \in 1 .. height |->
         [x \in 1 .. width |->
            <<BlockMean(resized, x - 1, y - 1, 1),
              BlockMean(resized, x - 1, y - 1, 2),
              BlockMean(resized, x - 1, y - 1, 3)>>]]

\* Lines 458-468: the size of the pixel grid.
ResizedWidthMutPlain(settings) == settings.width
ResizedWidth(settings) ==
  IF settings.charset = "braille" THEN settings.width * 2 ELSE settings.width
ResizedHeight(settings) ==
  IF settings.charset = "braille" THEN settings.height * 4 ELSE settings.height

\* Lines 479-485.
Invert(gray) ==
  [y \in 1 .. Len(gray) |-> [x \in 1 .. Len(gray[y]) |-> FSub(One, gray[y][x])]]

\* Lines 492 and 506: the number of levels handed to floydSteinberg.
DitherLevelsMutTwo(charset) == 2
DitherLevels(charset) ==
  IF charset = "braille" THEN 2 ELSE LengthOf(Lookup(charset))

\* Lines 495-501.
Threshold(gray) ==
  [y \in 1 .. Len(gray) |-> [x \in 1 .. Len(gray[y]) |->
     IF FLess(Half, gray[y][x]) THEN 1 ELSE 0]]

\* Lines 489-509 after the dithering.
PlainLines(charset, gray) ==
  IF charset = "braille" THEN BrailleFromArray(Threshold(gray))
  ELSE MapArrayToChars(charset, gray)

\* Lines 523-531.
InvertColors(colorSamples) ==
  [y \in 1 .. Len(colorSamples) |->
     [x \in 1 .. Len(colorSamples[y]) |->
        <<255 - colorSamples[y][x][1], 255 - colorSamples[y][x][2],
          255 - colorSamples[y][x][3]>>]]

\* Lines 512-532.
ColorSamples(imageData, settings) ==
  IF settings.colorMode = "none" THEN Null
  ELSE LET sampled ==
             IF settings.charset = "braille"
             THEN GetBrailleColorSamples(imageData, settings.width, settings.height)
             ELSE GetColorSamples(imageData, settings.width, settings.height)
       IN  Array(IF settings.invert THEN InvertColors(sampled) ELSE sampled)

\* The frames and settings processFrame is called with: a source image of
\* one opaque colour; brightness and contrast at multiples of 50; widths and
\* heights from -1 up. Dithering is asked for where the fractions of this
\* model are the numbers the code computes in floating point: on a grid of
\* zeros and ones, or on the grid of a single character whose cells are
\* multiples of 1/4, for a ramp other than the 70-character one.
FrameColors == {Black, White, Red}
FrameBrightness == {-50, 0, 50}
FrameContrast == {50, 100}
FrameSettings ==
  [charset : DOMAIN CHARSETS, colorMode : {"none", "truecolor"},
   dither : BOOLEAN, brightness : FrameBrightness, contrast : FrameContrast,
   invert : BOOLEAN, width : -1 .. MaxWidth, height : -1 .. MaxHeight]
Toned(pixel, settings) ==
  AdjustCell(Luminance(IF settings.width > 0 /\ settings.height > 0
                       THEN pixel ELSE Transparent),
             settings.brightness, settings.contrast)
DitherIsExact(pixel, settings) ==
  \/ ~settings.dither
  \/ Toned(pixel, settings) \in {Zero, One}
  \/ /\ Toned(pixel, settings) \in GrayChoices
     /\ settings.charset # "detailed"
     /\ Abs(settings.width) = 1 /\ Abs(settings.height) = 1

InitFrame ==
  \E pixel \in FrameColors : \E settings \in FrameSettings :
    /\ DitherIsExact(pixel, settings)
    /\ call = [fn |-> "processFrame", pc |-> "start",
               imageData |-> ImageData(2, 2, pixel), settings |-> settings,
               resized |-> Null, gray |-> <<>>, plainLines |-> <<>>,
               colorSamples |-> Null, result |-> Null]

\* Lines 461-470: the resize; getImageData throws for a zero size.
ProcessFrameResize ==
  /\ call.fn = "processFrame" /\ call.pc = "start"
  /\ LET w == ResizedWidth(call.settings)
         h == ResizedHeight(call.settings)
     IN  call' = IF GetImageDataThrows(w, h)
                 THEN [call EXCEPT !.pc = "threw"]
                 ELSE [call EXCEPT !.pc = "resized",
                                   !.resized = ResizeImageData(call.imageData, w, h)]

\* Line 473.
ProcessFrameGrayscale ==
  /\ call.fn = "processFrame" /\ call.pc = "resized"
  /\ call' = [call EXCEPT !.pc = "grayscale", !.gray = ToGrayscale(call.resized)]

\* Line 476.
ProcessFrameAdjust ==
  /\ call.fn = "processFrame" /\ call.pc = "grayscale"
  /\ call' = [call EXCEPT !.pc = "adjusted",
       !.gray = AdjustBrightnessContrast(@, call.settings.brightness,
                                         call.settings.contrast)]

\* Lines 479-485.
ProcessFrameInvert ==
  /\ call.fn = "processFrame" /\ call.pc = "adjusted"
  /\ call' = [call EXCEPT !.pc = "inverted",
       !.gray = IF call.settings.invert THEN Invert(@) ELSE @]

\* Lines 491-493 and 505-507.
ProcessFrameDither ==
  /\ call.fn = "processFrame" /\ call.pc = "inverted"
  /\ call' = [call EXCEPT !.pc = "dithered",
       !.gray = IF call.settings.dither
                THEN FloydSteinberg(@, DitherLevels(call.settings.charset))
                ELSE @]

\* Lines 494-502 and 508.
ProcessFrameLines ==
  /\ call.fn = "processFrame" /\ call.pc = "dithered"
  /\ call' = [call EXCEPT !.pc = "lines",
       !.plainLines = PlainLines(call.settings.charset, call.gray)]

\* Lines 511-532.
ProcessFrameColors ==
  /\ call.fn = "processFrame" /\ call.pc = "lines"
  /\ call' = [call EXCEPT !.pc = "colors",
       !.colorSamples = ColorSamples(call.imageData, call.settings)]

\* Lines 534-539.
ProcessFrameReturn ==
  /\ call.fn = "processFrame" /\ call.pc = "colors"
  /\ call' = [call EXCEPT !.pc = "returned",
       !.result = [lines |-> call.plainLines, colors |-> call.colorSamples,
                   width |-> call.settings.width, height |-> call.settings.height]]

\* The compositor run on every bounded input.
Init == CompInit /\ AppInit /\ call = NoCall
Next ==
  \/ BuildFullFrames /\ UNCHANGED <<appVars, procVars>>
  \/ ParseGifFromBuffer /\ UNCHANGED <<appVars, procVars>>
  \/ ParseGifFromBufferCall /\ UNCHANGED <<appVars, procVars>>
  \/ ReturnFullFrames /\ UNCHANGED <<appVars, procVars>>
  \/ DrawPatch /\ UNCHANGED <<appVars, procVars>>
  \/ CaptureFrame /\ UNCHANGED <<appVars, procVars>>
  \/ Dispose /\ UNCHANGED <<appVars, procVars>>
Spec == Init /\ [][Next]_vars

\* The application under every bounded run of user events, load completions
\* and timer callbacks.
InitApp == AppInit /\ rawFrames = <<>> /\ CompIdle /\ call = NoCall
NextApp ==
  \/ \E f \in Files : LoadFile(f) /\ UNCHANGED <<compVars, procVars>>
  \/ \E e \in BOOLEAN : HandleUrlLoad(e) /\ UNCHANGED <<compVars, procVars>>
  \/ \E k \in 1 .. Len(tasks) : \E r \in Files : LoadResolved(k, r) /\ UNCHANGED <<compVars, procVars>>
  \/ \E k \in 1 .. Len(tasks) : LoadRejected(k) /\ UNCHANGED <<compVars, procVars>>
  \/ \E c \in CharsetChoices : \E d \in BOOLEAN :
       HandleSettingChange(c, d) /\ UNCHANGED <<compVars, procVars>>
  \/ \E v \in DimensionTexts : HandleWidthChange(v) /\ UNCHANGED <<compVars, procVars>>
  \/ \E v \in DimensionTexts : HandleHeightChange(v) /\ UNCHANGED <<compVars, procVars>>
  \/ \E k \in 1 .. Len(tasks) : ResumeProcessing(k) /\ UNCHANGED <<compVars, procVars>>
SpecApp == InitApp /\ [][NextApp]_vars

\* The application with its playback controls: file loads, changes of the
\* charset and of the height that reprocess the frames, the playback
\* handlers and the timeouts.
SliderChoices == {1, 10}
HeightChoices == {Num(40)}
NextPlay ==
  \/ \E f \in Files : LoadFile(f) /\ UNCHANGED <<compVars, procVars>>
  \/ \E k \in 1 .. Len(tasks) : \E r \in Files : LoadResolved(k, r) /\ UNCHANGED <<compVars, procVars>>
  \/ HandleSettingChange("braille", FALSE) /\ UNCHANGED <<compVars, procVars>>
  \/ \E v \in HeightChoices : HandleHeightChange(v) /\ UNCHANGED <<compVars, procVars>>
  \/ \E k \in 1 .. Len(tasks) : ResumeProcessing(k) /\ UNCHANGED <<compVars, procVars>>
  \/ TogglePlayback /\ UNCHANGED <<compVars, procVars>>
  \/ HandlePrevFrame /\ UNCHANGED <<compVars, procVars>>
  \/ HandleNextFrame /\ UNCHANGED <<compVars, procVars>>
  \/ \E v \in SliderChoices : HandleSliderChange(v) /\ UNCHANGED <<compVars, procVars>>
  \/ HandleDownload /\ UNCHANGED <<compVars, procVars>>
  \/ \E k \in 1 .. Len(tasks) : Tick(k) /\ UNCHANGED <<compVars, procVars>>
SpecPlay == InitApp /\ [][NextPlay]_vars

\* floydSteinberg on every bounded grid and level count.
NextDither ==
  \/ FloydSteinbergEnter /\ UNCHANGED <<compVars, appVars>>
  \/ FloydSteinbergCell /\ UNCHANGED <<compVars, appVars>>
  \/ FloydSteinbergReturn /\ UNCHANGED <<compVars, appVars>>
StartDither == InitDither /\ AppInit /\ rawFrames = <<>> /\ CompIdle
SpecDither == StartDither /\ [][NextDither]_vars

\* charIndexForLuminance and mapArrayToChars on every bounded input.
NextCharset ==
  \/ CharIndexForLuminanceCall /\ UNCHANGED <<compVars, appVars>>
  \/ MapArrayToCharsEnter /\ UNCHANGED <<compVars, appVars>>
  \/ MapArrayToCharsRow /\ UNCHANGED <<compVars, appVars>>
  \/ MapArrayToCharsReturn /\ UNCHANGED <<compVars, appVars>>
StartCharset == InitCharset /\ AppInit /\ rawFrames = <<>> /\ CompIdle
SpecCharset == StartCharset /\ [][NextCharset]_vars

\* brailleChar and brailleFromArray on every bounded input.
NextBraille ==
  \/ BrailleCharCall /\ UNCHANGED <<compVars, appVars>>
  \/ BrailleFromArrayPad /\ UNCHANGED <<compVars, appVars>>
  \/ BrailleFromArrayLine /\ UNCHANGED <<compVars, appVars>>
  \/ BrailleFromArrayReturn /\ UNCHANGED <<compVars, appVars>>
StartBraille == InitBraille /\ AppInit /\ rawFrames = <<>> /\ CompIdle
SpecBraille == StartBraille /\ [][NextBraille]_vars

\* adjustBrightnessContrast on every bounded input.
NextTone ==
  \/ AdjustBrightnessContrastEnter /\ UNCHANGED <<compVars, appVars>>
  \/ AdjustBrightnessContrastCell /\ UNCHANGED <<compVars, appVars>>
  \/ AdjustBrightnessContrastReturn /\ UNCHANGED <<compVars, appVars>>
StartTone == InitTone /\ AppInit /\ rawFrames = <<>> /\ CompIdle
SpecTone == StartTone /\ [][NextTone]_vars

\* processFrame on every bounded frame and settings.
NextFrame ==
  \/ ProcessFrameResize /\ UNCHANGED <<compVars, appVars>>
  \/ ProcessFrameGrayscale /\ UNCHANGED <<compVars, appVars>>
  \/ ProcessFrameAdjust /\ UNCHANGED <<compVars, appVars>>
  \/ ProcessFrameInvert /\ UNCHANGED <<compVars, appVars>>
  \/ ProcessFrameDither /\ UNCHANGED <<compVars, appVars>>
  \/ ProcessFrameLines /\ UNCHANGED <<compVars, appVars>>
  \/ ProcessFrameColors /\ UNCHANGED <<compVars, appVars>>
  \/ ProcessFrameReturn /\ UNCHANGED <<compVars, appVars>>
StartFrame == InitFrame /\ AppInit /\ rawFrames = <<>> /\ CompIdle
SpecFrame == StartFrame /\ [][NextFrame]_vars

(***************************************************************************)
(* Properties of the compositor.                                           *)
(***************************************************************************)
KeepTypes == {0, 1}
Opaque(px) == px[4] = 255
Inside(p, d) ==
  /\ d.left <= p[1] /\ p[1] < d.left + d.width
  /\ d.top <= p[2] /\ p[2] < d.top + d.height
\* The patch pixel of raw frame f that lies over canvas position p.
Over(f, p) == f.patch[(p[2] - f.dims.top) * f.dims.width + (p[1] - f.dims.left) + 1]
HasDelay(f) == "delay" \in DOMAIN f
Running == pc \in {"loop", "capture", "dispose", "done"}

\* C1: when buildFullFrames returns, the list has one frame per raw frame, in
\* the raw frames' order (output i carries raw frame i's delay and shows raw
\* frame i's opaque patch pixels); every delay is >= 1, a raw delay of zero
\* or no delay gives 100, a positive delay is passed through.
C1_OneFramePerRawFrame ==
  pc = "done" =>
    /\ Len(fullFrames) = Len(rawFrames)
    /\ \A i \in 1 .. Len(rawFrames) :
         LET f == rawFrames[i]
             out == fullFrames[i]
         IN  /\ out.delay >= 1
             /\ (~HasDelay(f) \/ f.delay = 0) => out.delay = 100
             /\ (HasDelay(f) /\ f.delay > 0) => out.delay = f.delay
             /\ \A p \in DOMAIN out.imageData.data :
                  (Inside(p, f.dims) /\ Opaque(Over(f, p)))
                    => out.imageData.data[p] = Over(f, p)

C1_Witness ==
  /\ pc = "done"
  /\ Len(rawFrames) = 3
  /\ \E i, j, k \in 1 .. 3 :
       /\ ~HasDelay(rawFrames[i])
       /\ HasDelay(rawFrames[j]) /\ rawFrames[j].delay = 0
       /\ HasDelay(rawFrames[k]) /\ rawFrames[k].delay = 40
       /\ fullFrames[i].delay = 100 /\ fullFrames[j].delay = 100
       /\ fullFrames[k].delay = 40

RECURSIVE Replay(_)
\* The run of frames 1 .. k in the prescribed order (draw patch i, capture,
\* apply disposal i, and only then patch i+1): the canvas C and snapshot P
\* after disposal k, and the canvases as they were right after each patch
\* was drawn.
Replay(k) ==
  IF k = 0
  THEN [C |-> CreateCanvas(canvas.width, canvas.height), P |-> Null, drawn |-> <<>>]
  ELSE LET before == Replay(k - 1)
           f == rawFrames[k]
           d == DrawImage(before.C, f)
           outs == Append(before.drawn, d)
       IN  IF f.disposalType = 2
           THEN [C |-> ClearRect(d, f.dims.left, f.dims.top,
                                 f.dims.width, f.dims.height),
                 P |-> before.P, drawn |-> outs]
           ELSE IF f.disposalType = 3
           THEN [C |-> IF before.P = Null THEN d ELSE PutImageData(d, before.P),
                 P |-> before.P, drawn |-> outs]
           ELSE [C |-> d, P |-> GetImageData(d, d.width, d.height),
                 drawn |-> outs]

\* C2: the steps of frame i run in the order draw, capture, dispose, and
\* disposal i precedes patch i+1: every captured frame i, at every later
\* point of the run, is the canvas as it was right after patch i was drawn
\* and before disposal i; between capture and disposal the canvas still
\* equals the capture; at the loop head the canvas has had disposals 1 .. idx.
C2_DrawCaptureDisposeOrder ==
  Running =>
    LET r == Replay(IF pc \in {"capture", "dispose"} THEN idx + 1 ELSE idx)
    IN  /\ Len(fullFrames) = IF pc = "dispose" THEN idx + 1 ELSE idx
        /\ \A i \in 1 .. Len(fullFrames) :
             fullFrames[i].imageData.data = r.drawn[i].data
        /\ pc \in {"capture", "dispose"} => canvas = r.drawn[idx + 1]
        /\ pc \in {"loop", "done"} => canvas = r.C

C2_Witness ==
  /\ pc = "done"
  /\ Len(rawFrames) = 3
  /\ \A i \in 1 .. 3 :
       /\ fullFrames[i].imageData.data # Replay(i).C.data
       /\ fullFrames[i].imageData.data # canvas.data

\* C3: the disposal step of a frame with disposal 2 makes every canvas pixel
\* inside the frame's rectangle transparent zero, leaves every pixel outside
\* it unchanged and leaves the snapshot unchanged.
C3_RestoreBackgroundClearsOwnRect ==
  [][(pc = "dispose" /\ frame.disposalType = 2) =>
       /\ DOMAIN canvas'.data = DOMAIN canvas.data
       /\ \A p \in DOMAIN canvas.data :
            canvas'.data[p] =
              IF Inside(p, frame.dims) THEN <<0, 0, 0, 0>> ELSE canvas.data[p]
       /\ previousImageData' = previousImageData]_vars

\* A disposal 2 just applied to a rectangle smaller than the canvas, with
\* pixels that were cleared, pixels outside that stayed, and a snapshot.
C3_Witness ==
  /\ pc = "loop" /\ idx >= 2
  /\ rawFrames[idx].disposalType = 2
  /\ previousImageData # Null
  /\ \E p, q \in DOMAIN canvas.data :
       /\ Inside(p, rawFrames[idx].dims)
       /\ fullFrames[idx].imageData.data[p] # Transparent
       /\ canvas.data[p] = Transparent
       /\ ~Inside(q, rawFrames[idx].dims)
       /\ canvas.data[q] # Transparent

NoKeepBefore(k) == \A j \in 1 .. k - 1 : rawFrames[j].disposalType \notin KeepTypes

\* C4: the disposal step of a frame with disposal 3 that no Keep frame
\* precedes changes nothing: the canvas stays as the patch left it and the
\* snapshot stays undefined.
C4_RestorePreviousWithoutKeepIsNoop ==
  [][(pc = "dispose" /\ frame.disposalType = 3 /\ NoKeepBefore(idx + 1)) =>
       /\ canvas' = canvas
       /\ previousImageData = Null
       /\ previousImageData' = Null]_vars

C4_Witness ==
  /\ pc = "loop" /\ idx >= 2
  /\ rawFrames[idx].disposalType = 3
  /\ NoKeepBefore(idx)
  /\ canvas.data = fullFrames[idx].imageData.data
  /\ \E p \in DOMAIN canvas.data : canvas.data[p] # Transparent

\* The last Keep frame among 1 .. k, or 0.
LastKeep(k) ==
  LET ks == {j \in 1 .. k : rawFrames[j].disposalType \in KeepTypes}
  IN  IF ks = {} THEN 0 ELSE CHOOSE j \in ks : \A l \in ks : l <= j

C6_DrawPatchFrame ==
  [][(pc = "loop" /\ pc' = "capture") =>
       /\ DOMAIN canvas'.data = DOMAIN canvas.data
       /\ \A p \in DOMAIN canvas.data :
            IF ~Inside(p, frame.dims)
            THEN canvas'.data[p] = canvas.data[p]
            ELSE /\ Over(frame, p)[4] = 0 => canvas'.data[p] = canvas.data[p]
                 /\ Over(frame, p)[4] = 255 => canvas'.data[p] = Over(frame, p)]_vars

\* The patch with holes drawn over a red canvas: red shows through the holes
\* and stays outside the rectangle, the opaque pixels are the patch's.
C6_Witness ==
  /\ pc = "capture" /\ idx >= 1
  /\ frame.patch = HolesFrame(0).patch
  /\ canvas.data[<<2, 1>>] = Blue
  /\ canvas.data[<<3, 1>>] = Red
  /\ canvas.data[<<3, 2>>] = Red
  /\ canvas.data[<<2, 3>>] = Blue
  /\ canvas.data[<<0, 0>>] = Red
  /\ canvas.data[<<1, 2>>] = Red

\* The two-frame scenario on a 4x4 canvas.
IsScenario ==
  /\ Len(rawFrames) = 2
  /\ rawFrames[1].dims = [left |-> 0, top |-> 0, width |-> 4, height |-> 4]
  /\ rawFrames[1].patch = [i \in 1 .. 16 |-> <<255, 0, 0, 255>>]
  /\ rawFrames[1].disposalType = 2
  /\ rawFrames[2].dims = [left |-> 1, top |-> 1, width |-> 2, height |-> 2]
  /\ rawFrames[2].patch = [i \in 1 .. 4 |-> <<0, 0, 255, 255>>]
  /\ rawFrames[2].disposalType \in KeepTypes
  /\ canvas.width = 4 /\ canvas.height = 4

BlueSquareAt11 ==
  [p \in (0 .. 3) \X (0 .. 3) |->
     IF p[1] \in {1, 2} /\ p[2] \in {1, 2} THEN <<0, 0, 255, 255>>
     ELSE <<0, 0, 0, 0>>]

\* C7: in the scenario composited frame 1 is all red, the canvas is fully
\* transparent after disposal 1, composited frame 2 is transparent but for
\* the 2x2 blue square at (1,1), and after disposal 2 the snapshot equals
\* composited frame 2.
C7_Scenario ==
  (Running /\ IsScenario) =>
    /\ Len(fullFrames) >= 1 =>
         fullFrames[1].imageData.data = [p \in (0 .. 3) \X (0 .. 3) |-> <<255, 0, 0, 255>>]
    /\ (pc = "loop" /\ idx = 1) =>
         canvas.data = [p \in (0 .. 3) \X (0 .. 3) |-> <<0, 0, 0, 0>>]
    /\ Len(fullFrames) >= 2 => fullFrames[2].imageData.data = BlueSquareAt11
    /\ idx = 2 =>
         /\ previousImageData # Null
         /\ previousImageData = fullFrames[2].imageData

C7_Witness ==
  /\ IsScenario
  /\ pc = "done"
  /\ Len(fullFrames) = 2
  /\ previousImageData.data = BlueSquareAt11

C9_DimensionsStayPositive ==
  state.settings.width > 0 /\ state.settings.height > 0

\* C10: once every call of processAllFrames has finished, processedFrames
\* holds exactly one entry per input frame, in input order, each with the
\* delay of its own frame and all produced with the same settings - also
\* when a second call started while an earlier one was suspended at its
\* yield.  (Stated for the runs in which no call was cut short by an
\* exception: the grid dimensions are positive.)
C10_OneEntryPerFrame ==
  (/\ tasks = <<>>
   /\ state.frames # Null
   /\ state.processedFrames # Null
   /\ ~ProcessFrameThrows(state.settings))
  => /\ Length(state.processedFrames) = Length(state.frames)
     /\ \A i \in 1 .. Length(state.processedFrames) :
          /\ i <= Length(state.frames)
          /\ state.processedFrames.items[i].of = state.frames.items[i].imageData
          /\ state.processedFrames.items[i].delay = state.frames.items[i].delay
          /\ state.processedFrames.items[i].settings = state.settings

(***************************************************************************)
(* Properties of the frame processor.                                      *)
(***************************************************************************)
Cells(grid) == {c \in (1 .. Height(grid)) \X (1 .. Width(grid)) : TRUE}
Ones(grid) == Cardinality({c \in Cells(grid) : grid[c[1]][c[2]] = One})
Returned(fn) == call.fn = fn /\ call.pc = "returned"
HalfGridCall ==
  /\ call.fn = "floydSteinberg" /\ call.levels = 2
  /\ Height(call.gray) >= 1
  /\ call.gray = UniformGrid(Height(call.gray), Width(call.gray), Half)

\* C11: floydSteinberg with levels = 2 on a grid whose cells all equal 0.5
\* returns only cells equal to 0 or 1, and the mean of the output differs
\* from 0.5 by at most 1 / (2 * number of cells): the number of 1 cells and
\* the number of 0 cells differ by at most one.
C11_HalfGridDithersToBits ==
  (HalfGridCall /\ call.pc = "returned")
  => /\ \A c \in Cells(call.img) : call.img[c[1]][c[2]] \in {Zero, One}
     /\ Abs(2 * Ones(call.img) - Height(call.img) * Width(call.img)) <= 1
C11_Witness ==
  /\ HalfGridCall /\ call.pc = "returned"
  /\ Height(call.gray) = 2 /\ Width(call.gray) = 3
  /\ call.img = <<<<One, Zero, One>>, <<Zero, One, Zero>>>>

\* C12: dithering requested with levels < 1 fails at the start of the
\* operation: no cell is quantized and no output grid is returned.
C12_InvalidLevelsRejected ==
  (call.fn = "floydSteinberg" /\ call.levels < 1)
  => /\ call.pc # "returned"
     /\ call.pc = "loop" => call.k = 0

\* The index the floor rule names: the k with k <= v * (len - 1) < k + 1,
\* clamped to 0 .. len - 1.
FloorRuleIndex(v, len) ==
  LET k == CHOOSE j \in -len .. 2 * len :
             /\ ~FLess(FMul(v, <<len - 1, 1>>), <<j, 1>>)
             /\ FLess(FMul(v, <<len - 1, 1>>), <<j + 1, 1>>)
  IN  IF k < 0 THEN 0 ELSE IF k > len - 1 THEN len - 1 ELSE k
Registered(name) == name \in DOMAIN CHARSETS

\* C13: for every ramp of length len and every luminance v the mapped
\* character is ramp[clamp(floor(v * (len - 1)), 0, len - 1)]; a larger
\* luminance never yields a smaller index; for "simple" 0.0 gives ramp[0],
\* 1.0 gives ramp[9] and 0.5 gives ramp[4]; mapArrayToChars puts at every
\* cell the character charIndexForLuminance names.
C13_RampIndexByFloorRule ==
  /\ (Returned("charIndexForLuminance") /\ Registered(call.charset))
     => LET ramp == CHARSETS[call.charset]
        IN  /\ call.result = FloorRuleIndex(call.luminance, Len(ramp))
            /\ \A v \in LuminanceChoices :
                 FLess(v, call.luminance)
                 => CharIndexForLuminance(call.charset, v) <= call.result
            /\ (call.charset = "simple" /\ call.luminance = Zero) => call.result = 0
            /\ (call.charset = "simple" /\ call.luminance = One) => call.result = 9
            /\ (call.charset = "simple" /\ call.luminance = Half) => call.result = 4
  /\ (Returned("mapArrayToChars") /\ Registered(call.charset))
     => LET ramp == CHARSETS[call.charset]
            rows == call.luminanceRows
        IN  /\ Len(call.lines) = Len(rows)
            /\ \A y \in 1 .. Len(rows) :
                 /\ Len(call.lines[y]) = Len(rows[y])
                 /\ \A x \in 1 .. Len(rows[y]) :
                      /\ call.lines[y][x] =
                           ramp[CharIndexForLuminance(call.charset, rows[y][x]) + 1]
                      /\ call.lines[y][x] =
                           ramp[FloorRuleIndex(rows[y][x], Len(ramp)) + 1]
C13_Witness ==
  /\ Returned("mapArrayToChars") /\ call.charset = "simple"
  /\ call.luminanceRows = <<<<Zero, Half>>, <<One, Half>>>>
  /\ call.lines = <<<<SimpleRamp[1], SimpleRamp[5]>>, <<SimpleRamp[10], SimpleRamp[5]>>>>

\* C14: mapping with a charset name that is not one of the registered ramps
\* fails at the start of the operation: no line is produced and nothing is
\* returned.
C14_UnknownCharsetRejected ==
  (call.fn \in {"charIndexForLuminance", "mapArrayToChars"}
   /\ ~Registered(call.charset))
  => call.pc \in {"start", "threw"}

\* The bit the fixed assignment gives to the dot of row r, column c (0-based).
DotBit(r, c) ==
  IF c = 0 THEN (IF r = 0 THEN 0 ELSE IF r = 1 THEN 1 ELSE IF r = 2 THEN 2 ELSE 6)
  ELSE (IF r = 0 THEN 3 ELSE IF r = 1 THEN 4 ELSE IF r = 2 THEN 5 ELSE 7)
\* The dots of a braille code unit.
Unpack(unit) ==
  [r \in 1 .. 4 |-> [c \in 1 .. 2 |->
     ((unit - 10240) \div Pow2(DotBit(r - 1, c - 1))) % 2 = 1]]
Mask(dots) ==
  LET S == {rc \in (0 .. 3) \X (0 .. 1) : dots[rc[1] + 1][rc[2] + 1]}
      RECURSIVE Sum(_)
      Sum(T) == IF T = {} THEN 0
                ELSE LET t == CHOOSE u \in T : TRUE
                     IN  Pow2(DotBit(t[1], t[2])) + Sum(T \ {t})
  IN  Sum(S)

\* C15: brailleChar gives the code point U+2800 + bitmask with the fixed bit
\* of each dot; unpacking the code point gives back the dots, and every code
\* point of U+2800..U+28FF is the image of a pattern; the pattern with only
\* (r0,c0) and (r3,c1) set gives U+2800 + 129.
C15_BrailleCharIsBijection ==
  Returned("brailleChar")
  => /\ call.result = <<10240 + Mask(call.dots)>>
     /\ call.result[1] \in 10240 .. 10495
     /\ Unpack(call.result[1]) = call.dots
     /\ \A n \in 0 .. 255 : BrailleChar(Unpack(10240 + n)) = <<10240 + n>>
     /\ (call.dots = <<<<TRUE, FALSE>>, <<FALSE, FALSE>>, <<FALSE, FALSE>>,
                      <<FALSE, TRUE>>>>)
        => call.result = <<10240 + 129>>
C15_Witness ==
  /\ Returned("brailleChar")
  /\ call.dots = <<<<TRUE, FALSE>>, <<FALSE, FALSE>>, <<FALSE, FALSE>>, <<FALSE, TRUE>>>>
  /\ call.result = <<10369>>

CeilDiv(a, b) == (a + b - 1) \div b
\* The cell (y, x) (0-based) of the input extended with unset cells.
Extended(grid, y, x) ==
  IF y < Height(grid) /\ x < Width(grid) THEN grid[y + 1][x + 1] > 0 ELSE FALSE

\* C16: for a binary grid of h rows and w columns brailleFromArray returns
\* ceil(h/4) lines of ceil(w/2) characters; the character of block (l, b) is
\* the encoding of the eight cells (4l + r, 2b + c) of the input extended
\* with unset cells below and to the right; the input grid is not modified.
C16_BraillePadsBottomRight ==
  (Returned("brailleFromArray") /\ Height(call.input) >= 1)
  => LET h == Height(call.input)
         w == Width(call.input)
     IN  /\ call.binary = call.input
         /\ Len(call.lines) = CeilDiv(h, 4)
         /\ \A l \in 1 .. Len(call.lines) :
              /\ Len(call.lines[l]) = CeilDiv(w, 2)
              /\ \A b \in 1 .. Len(call.lines[l]) :
                   Unpack(call.lines[l][b]) =
                     [r \in 1 .. 4 |-> [c \in 1 .. 2 |->
                        Extended(call.input, 4 * (l - 1) + r - 1, 2 * (b - 1) + c - 1)]]
C16_Witness ==
  /\ Returned("brailleFromArray")
  /\ Height(call.input) = 5 /\ Width(call.input) = 3
  /\ call.input[5][3] = 1 /\ call.input[1][1] = 1
  /\ Height(call.padded) = 8 /\ Width(call.padded) = 4
  /\ call.lines = <<<<10241, 10240>>, <<10240, 10241>>>>

\* clamp(((v + b/100) - 0.5) * (c/100) + 0.5, 0, 1)
ToneFormula(v, b, c) ==
  LET t == FAdd(FMul(FSub(FAdd(v, <<b, 100>>), <<1, 2>>), <<c, 100>>), <<1, 2>>)
  IN  IF FLess(t, <<0, 1>>) THEN <<0, 1>> ELSE IF FLess(<<1, 1>>, t) THEN <<1, 1>> ELSE t

\* C17: adjustBrightnessContrast computes per cell
\* clamp(((v + brightness/100) - 0.5) * (contrast/100) + 0.5, 0, 1), with no
\* clamp between the shift and the scaling; with brightness 0 and contrast
\* 100 the result equals the input; every output cell is in [0, 1]; the
\* input grid is not modified.
C17_BrightnessThenContrast ==
  Returned("adjustBrightnessContrast")
  => /\ call.gray = call.input
     /\ Height(call.result) = Height(call.input)
     /\ \A y \in 1 .. Height(call.input) :
          /\ Len(call.result[y]) = Len(call.input[y])
          /\ \A x \in 1 .. Len(call.input[y]) :
               /\ FAdd(call.result[y][x], <<0, 1>>) =
                    ToneFormula(call.input[y][x], call.brightness, call.contrast)
               /\ ~FLess(call.result[y][x], <<0, 1>>)
               /\ ~FLess(<<1, 1>>, call.result[y][x])
     /\ (call.brightness = 0 /\ call.contrast = 100) => call.result = call.input
C17_Witness ==
  /\ Returned("adjustBrightnessContrast")
  /\ call.input = <<<<One, <<1, 4>>>>>>
  /\ call.brightness = 50 /\ call.contrast = 50
  /\ call.result = <<<<One, <<5, 8>>>>>>

\* The stages of processFrame written out.
StageGrayscale(resized) ==
  [y \in 1 .. resized.height |-> [x \in 1 .. resized.width |->
     LET p == resized.rows[y][x]
     IN  Frac(299 * p[1] + 587 * p[2] + 114 * p[3], 255000)]]
StageTone(gray, settings) ==
  [y \in 1 .. Len(gray) |-> [x \in 1 .. Len(gray[y]) |->
     ToneFormula(gray[y][x], settings.brightness, settings.contrast)]]
StageInvert(gray, settings) ==
  [y \in 1 .. Len(gray) |-> [x \in 1 .. Len(gray[y]) |->
     IF settings.invert THEN FSub(One, gray[y][x]) ELSE gray[y][x]]]
StageLevels(settings) ==
  IF settings.charset = "braille" THEN 2 ELSE Len(CHARSETS[settings.charset])
StageDither(gray, settings) ==
  IF settings.dither THEN FloydSteinberg(gray, StageLevels(settings)) ELSE gray
StageLines(gray, settings) ==
  IF settings.charset = "braille"
  THEN BrailleFromArray(
         [y \in 1 .. Len(gray) |-> [x \in 1 .. Len(gray[y]) |->
            IF FLess(Half, gray[y][x]) THEN 1 ELSE 0]])
  ELSE MapArrayToChars(settings.charset, gray)

\* C18: processFrame runs grayscale, then brightness/contrast, then the
\* inversion (only when invert is set), then the dithering (only when dither
\* is set), then the quantization; the dithering uses as many levels as the
\* ramp of the charset has characters, and 2 for braille, whose cells are
\* thresholded to 0/1 after the dithering.
C18_StagesInOrder ==
  (call.fn = "processFrame" /\ call.pc \notin {"start", "threw", "resized"})
  => LET s == call.settings
         grayscale == StageGrayscale(call.resized)
         toned == StageTone(grayscale, s)
         inverted == StageInvert(toned, s)
         dithered == StageDither(inverted, s)
         lines == StageLines(dithered, s)
     IN  /\ call.pc = "grayscale" => call.gray = grayscale
         /\ call.pc = "adjusted" => call.gray = toned
         /\ call.pc = "inverted" => call.gray = inverted
         /\ call.pc = "dithered" => call.gray = dithered
         /\ call.pc \in {"lines", "colors"} => call.plainLines = lines
         /\ call.pc = "returned" => call.result.lines = lines
C18_Witness ==
  /\ Returned("processFrame")
  /\ call.imageData.rows[1][1] = Black
  /\ call.settings.charset = "blocks"
  /\ call.settings.dither /\ call.settings.invert
  /\ call.settings.brightness = 50 /\ call.settings.contrast = 100
  /\ call.settings.width = 1 /\ call.settings.height = 1
  /\ call.result.lines = <<<<BlocksRamp[5]>>>>

\* The channel a character's colour shows for the channel c of the frame.
Shown(c) == IF call.settings.invert THEN 255 - c ELSE c

\* C19: for a width W >= 1 and a height H >= 1 processFrame returns H lines
\* of W characters, for every charset, braille included; colors is null
\* exactly when colorMode is "none", and otherwise has H rows of W RGB
\* triples with every channel in 0..255, the channel c of the frame
\* appearing as 255 - c when invert is set.
C19_LinesAndColorsFitSize ==
  (Returned("processFrame") /\ call.settings.width >= 1 /\ call.settings.height >= 1)
  => LET W == call.settings.width
         H == call.settings.height
         lines == call.result.lines
         colors == call.result.colors
         pixel == call.imageData.rows[1][1]
     IN  /\ Len(lines) = H
         /\ \A y \in 1 .. H : Len(lines[y]) = W
         /\ (colors = Null) <=> (call.settings.colorMode = "none")
         /\ colors # Null =>
              /\ Length(colors) = H
              /\ \A y \in 1 .. H :
                   /\ Len(colors.items[y]) = W
                   /\ \A x \in 1 .. W :
                        /\ Len(colors.items[y][x]) = 3
                        /\ \A ch \in 1 .. 3 :
                             /\ colors.items[y][x][ch] \in 0 .. 255
                             /\ colors.items[y][x][ch] = Shown(pixel[ch])
C19_Witness ==
  /\ Returned("processFrame")
  /\ call.settings.charset = "braille" /\ call.settings.colorMode = "truecolor"
  /\ call.settings.invert
  /\ call.settings.width = 2 /\ call.settings.height = 2
  /\ call.imageData.rows[1][1] = Red
  /\ Len(call.result.lines) = 2 /\ Len(call.result.lines[1]) = 2
  /\ call.result.colors = Array(<<<<<<0, 255, 255>>, <<0, 255, 255>>>>,
                                  <<<<0, 255, 255>>, <<0, 255, 255>>>>>>)

\* C20: processFrame called with a width or a height below 1 fails at its
\* start and returns no result.
C20_NonPositiveSizeRejected ==
  (call.fn = "processFrame"
   /\ (call.settings.width <= 0 \/ call.settings.height <= 0))
  => call.pc \in {"start", "threw"}

\* The cell number k (row-major, 0-based) of a grid.
CellAt(grid, k) == grid[(k \div Width(grid)) + 1][(k % Width(grid)) + 1]
\* v is one of the levels 0, 1/(levels-1), ..., 1.
IsLevel(v, levels) == \E k \in 0 .. levels - 1 : v = Frac(k, levels - 1)

\* C21: in floydSteinberg with levels >= 2 the step on cell k leaves every
\* cell before k as it is and makes cell k a quantization level; the error
\* goes only to cells after k, so every visited cell stays a level
\* k/(levels-1); the final clamp changes no cell, every cell of the returned
\* grid is a level, and the input grid is not modified.
C21_QuantizedCellsStay ==
  [][(call.fn = "floydSteinberg" /\ call.pc = "loop" /\ call.levels >= 2) =>
       /\ call'.gray = call.gray
       /\ \A j \in 0 .. call.k - 1 :
            /\ IsLevel(CellAt(call.img, j), call.levels)
            /\ CellAt(call'.img, j) = CellAt(call.img, j)
       /\ call'.pc = "loop" => IsLevel(CellAt(call'.img, call.k), call.levels)
       /\ call'.pc = "returned" =>
            /\ call'.img = call.img
            /\ \A j \in 0 .. Height(call.img) * Width(call.img) - 1 :
                 IsLevel(CellAt(call'.img, j), call.levels)]_vars
\* The second cell of <<1/4, 1>> stood at 71/64, outside [0, 1], before its
\* own quantization.
C21_Witness ==
  /\ Returned("floydSteinberg") /\ call.levels = 2
  /\ call.gray = <<<<(<<1, 4>>), One>>>>
  /\ call.img = <<<<Zero, One>>>>

(***************************************************************************)
(* Properties of the playback controls.                                    *)
(***************************************************************************)
\* C22: whenever processedFrames is non-empty, currentFrame is an integer
\* with 0 <= currentFrame < processedFrames.length.
C22_CurrentFrameInRange ==
  (state.processedFrames # Null /\ Length(state.processedFrames) > 0)
  => /\ ~state.currentFrame.nan
     /\ state.currentFrame.n >= 0
     /\ state.currentFrame.n < Length(state.processedFrames)

\* The pending playback timeouts.
PendingTicks == {k \in 1 .. Len(tasks) : tasks[k].op = "tick"}
AtMostOneTimer(st, ts) ==
  LET pending == {k \in 1 .. Len(ts) : ts[k].op = "tick"}
  IN  /\ Cardinality(pending) <= 1
      /\ ~st.isPlaying => pending = {} /\ st.playbackTimer = Null

\* C23: at most one playback timeout is pending at any time; whenever
\* isPlaying is false no playback timeout is pending and playbackTimer is
\* null; playback starts only with more than one processed frame.
C23_SinglePlaybackTimer ==
  [][/\ AtMostOneTimer(state, tasks)
     /\ AtMostOneTimer(state', tasks')
     /\ (~state.isPlaying /\ state'.isPlaying) =>
          /\ state.processedFrames # Null
          /\ Length(state.processedFrames) > 1]_vars
\* Playback of the two-frame GIF started from its first frame and went round
\* once: the timeout of the second tick is pending.
C23_Witness ==
  /\ state.isPlaying
  /\ Cardinality(PendingTicks) = 1
  /\ \A k \in PendingTicks : state.playbackTimer = [id |-> tasks[k].i]
  /\ Length(state.processedFrames) = 2
  /\ state.currentFrame = Num(0)

====
